---- MODULE Spec2Model ----
(***************************************************************************)
(* Model of protohell.py: the leaf decode parse_at_leaf, the ticket-bundle *)
(* decode of Release.__init__ and the batch loop get_releases_from_leaves. *)
(*                                                                         *)
(* Bytes are naturals 0..255 and a bytes object is a sequence of them.     *)
(* Python's Optional values are records: None is [present |-> FALSE] and a *)
(* value v is [present |-> TRUE, value |-> v].  A call either returns      *)
(* ([ok |-> TRUE, ...]) or raises ([ok |-> FALSE, error |-> exception]).   *)
(***************************************************************************)
EXTENDS Integers, Sequences, FiniteSets, TLC

VARIABLES
    raw,         \* parse_at_leaf: the argument buffer
    built,       \* how raw was made: the field values encoded, and whether untouched
    at_leaf,     \* parse_at_leaf: "the call has not run" or its outcome
    log_leaves,  \* get_releases_from_leaves: log_leaves.leaves
    idx,         \* get_releases_from_leaves: position of the for loop (entries done)
    release,     \* Release(log_leaf, at_leaf): "the call has not run" or its outcome
    releases,    \* get_releases_from_leaves: the local list releases
    status       \* get_releases_from_leaves: "running", "returned" or the exception

vars == <<raw, built, at_leaf, log_leaves, idx, release, releases, status>>

----------------------------------------------------------------------------
(* Python values *)

None == [present |-> FALSE]

Some(v) == [present |-> TRUE, value |-> v]

\* `x or None` on a str or bytes value: the empty value is falsy.
OrNone(x) == IF x = <<>> THEN None ELSE Some(x)

Raise(e) == [ok |-> FALSE, error |-> e]

Min(a, b) == IF a <= b THEN a ELSE b

\* io.BytesIO.read(n) at position pos (0-based): the bytes that are there, at
\* most n of them.
StreamRead(buf, pos, n) == SubSeq(buf, pos + 1, Min(pos + n, Len(buf)))

\* The bytes taken in the other order: int.from_bytes(bs, "little").
RECURSIVE IntFromBytesLittle(_)
IntFromBytesLittle(bs) ==
    IF bs = <<>> THEN 0
    ELSE bs[1] + 256 * IntFromBytesLittle(Tail(bs))

\* int.from_bytes(bs, "big") for the two-byte length fields.
RECURSIVE IntFromBytesBig(_)
IntFromBytesBig(bs) ==
    IF bs = <<>> THEN 0
    ELSE IntFromBytesBig(SubSeq(bs, 1, Len(bs) - 1)) * 256 + bs[Len(bs)]

\* int.from_bytes(bs, "big") for the eight-byte expiry.  A Python int is
\* unbounded and 2^64 is beyond the checker's integers, so the value is kept
\* as its base-256 numeral without leading zeros (<<>> is 0): two numerals
\* are equal exactly when the integers are.
RECURSIVE BigIntFromBytesBig(_)
BigIntFromBytesBig(bs) ==
    IF bs = <<>> THEN <<>>
    ELSE IF bs[1] = 0 THEN BigIntFromBytesBig(Tail(bs))
    ELSE bs

\* bytes.decode(): strict UTF-8.  The text is the sequence of its code points.
IsCont(b) == b >= 128 /\ b <= 191

RECURSIVE Utf8Decode(_)
Utf8Decode(bs) ==
    IF bs = <<>> THEN [ok |-> TRUE, text |-> <<>>]
    ELSE
      LET b == bs[1]
          n == Len(bs)
          size == IF b < 128 THEN 1
                  ELSE IF b >= 194 /\ b <= 223 THEN 2
                  ELSE IF b >= 224 /\ b <= 239 THEN 3
                  ELSE IF b >= 240 /\ b <= 244 THEN 4
                  ELSE 0
          wellFormed ==
              /\ size > 0
              /\ n >= size
              /\ \A k \in 2..size : IsCont(bs[k])
              /\ (b = 224 => bs[2] >= 160)
              /\ (b = 237 => bs[2] <= 159)
              /\ (b = 240 => bs[2] >= 144)
              /\ (b = 244 => bs[2] <= 143)
          cp == IF size = 1 THEN b
                ELSE IF size = 2 THEN (b - 192) * 64 + (bs[2] - 128)
                ELSE IF size = 3
                     THEN (b - 224) * 4096 + (bs[2] - 128) * 64 + (bs[3] - 128)
                ELSE (b - 240) * 262144 + (bs[2] - 128) * 4096
                     + (bs[3] - 128) * 64 + (bs[4] - 128)
      IN IF ~wellFormed THEN Raise("UnicodeDecodeError")
         ELSE LET rest == Utf8Decode(SubSeq(bs, size + 1, n))
              IN IF rest.ok THEN [ok |-> TRUE, text |-> <<cp>> \o rest.text]
                 ELSE rest

\* AtLogDataType (lib): the values of the enumeration and its release member.
AtLogDataTypeValues == {0, 1, 2, 3, 4, 5, 100}

RELEASE == 1

\* AtLogDataType(value): the member with that value; a value that is none of
\* the enumeration's raises ValueError.
AtLogDataType(b) ==
    IF b \in AtLogDataTypeValues THEN [ok |-> TRUE, member |-> b]
    ELSE Raise("ValueError")

----------------------------------------------------------------------------
(* parse_at_leaf *)

TransparencyExtension(type, data) == [type |-> type, data |-> data]

ATLeaf(version, type, description, hash, expiry_ms, extensions) ==
    [version |-> version, type |-> type, description |-> description,
     hash |-> hash, expiry_ms |-> expiry_ms, extensions |-> extensions]

\* The while loop over extensions_stream: pos is extensions_stream.tell().
RECURSIVE ParseExtensions(_, _, _, _)
ParseExtensions(extensions_raw, pos, extensions_size, extensions) ==
    IF ~(pos < extensions_size) THEN [ok |-> TRUE, extensions |-> extensions]
    ELSE
      LET typeBytes == StreamRead(extensions_raw, pos, 1)
          p1 == pos + Len(typeBytes)
          sizeBytes == StreamRead(extensions_raw, p1, 2)
          p2 == p1 + Len(sizeBytes)
          extension_size == IntFromBytesBig(sizeBytes)
          extension_data == StreamRead(extensions_raw, p2, extension_size)
          p3 == p2 + Len(extension_data)
      IN IF typeBytes = <<>> THEN Raise("IndexError")
         ELSE ParseExtensions(extensions_raw, p3, extensions_size,
                  Append(extensions,
                         TransparencyExtension(typeBytes[1], extension_data)))

parse_at_leaf(buf) ==
    LET versionBytes == StreamRead(buf, 0, 1)
        p1 == Len(versionBytes)
        typeBytes == StreamRead(buf, p1, 1)
        p2 == p1 + Len(typeBytes)
        type == AtLogDataType(typeBytes[1])
        descSizeBytes == StreamRead(buf, p2, 1)
        p3 == p2 + Len(descSizeBytes)
        descBytes == StreamRead(buf, p3, descSizeBytes[1])
        p4 == p3 + Len(descBytes)
        decoded == Utf8Decode(descBytes)
        hashSizeBytes == StreamRead(buf, p4, 1)
        p5 == p4 + Len(hashSizeBytes)
        hashBytes == StreamRead(buf, p5, hashSizeBytes[1])
        p6 == p5 + Len(hashBytes)
        expiryBytes == StreamRead(buf, p6, 8)
        p7 == p6 + Len(expiryBytes)
        extSizeBytes == StreamRead(buf, p7, 2)
        p8 == p7 + Len(extSizeBytes)
        extensions_size == IntFromBytesBig(extSizeBytes)
        extensions_raw == StreamRead(buf, p8, extensions_size)
        parsed == ParseExtensions(extensions_raw, 0, extensions_size, <<>>)
    IN IF versionBytes = <<>> THEN Raise("IndexError")
       ELSE IF typeBytes = <<>> THEN Raise("IndexError")
       ELSE IF ~type.ok THEN type
       ELSE IF descSizeBytes = <<>> THEN Raise("IndexError")
       ELSE IF ~decoded.ok THEN decoded
       ELSE IF hashSizeBytes = <<>> THEN Raise("IndexError")
       ELSE IF ~parsed.ok THEN parsed
       ELSE [ok |-> TRUE,
             leaf |-> ATLeaf(versionBytes[1], type.member, OrNone(decoded.text),
                             OrNone(hashBytes), BigIntFromBytesBig(expiryBytes),
                             parsed.extensions)]

----------------------------------------------------------------------------
(* asn1.Decoder as Release.__init__ uses it.  A decoder level is a buffer
   and an index into it; tags are one byte (numbers below 31) and lengths
   are short-form (below 128), which is all the buffers decoded here hold. *)

Sequence == 16

Set == 17

Integer == 2

OctetString == 4

Boolean == 1

Null == 5

\* The tag in byte b: class, primitive or constructed, number.
TagOf(b) == [cls |-> b \div 64, constructed |-> (b \div 32) % 2 = 1, nr |-> b % 32]

\* Decoder.eof() on the level (data, i).
Eof(data, i) == i >= Len(data)

\* Decoder.peek() on a level that is not at its end.
Peek(data, i) == TagOf(data[i + 1])

\* The integer contents of an INTEGER: two's complement, big-endian, and
\* rejected when not in the shortest form.
DecodeInteger(bs) ==
    IF bs = <<>> THEN Raise("IndexError")
    ELSE IF Len(bs) > 1 /\ (\/ bs[1] = 255 /\ bs[2] >= 128
                            \/ bs[1] = 0 /\ bs[2] < 128)
         THEN Raise("asn1.Error")
    ELSE [ok |-> TRUE,
          value |-> IF bs[1] >= 128
                    THEN IntFromBytesBig(bs) - IntFromBytesBig(<<1>> \o [k \in 1..Len(bs) |-> 0])
                    ELSE IntFromBytesBig(bs)]

\* The tag, the length and the contents at index i of data: premature end of
\* input raises.
ReadTLV(data, i) ==
    IF i + 2 > Len(data) THEN Raise("asn1.Error")
    ELSE IF i + 2 + data[i + 2] > Len(data) THEN Raise("asn1.Error")
    ELSE [ok |-> TRUE, tag |-> TagOf(data[i + 1]),
          contents |-> SubSeq(data, i + 3, i + 2 + data[i + 2]),
          next |-> i + 2 + data[i + 2]]

\* Decoder.read() on a level that is not at its end: the tag and the value.
\* An INTEGER is decoded, a BOOLEAN and a NULL have their length checked, any
\* other value is its contents.
DecoderRead(data, i) ==
    LET tlv == ReadTLV(data, i)
        universal == tlv.tag.cls = 0
        int == DecodeInteger(tlv.contents)
    IN IF ~tlv.ok THEN tlv
       ELSE IF universal /\ tlv.tag.nr = Integer
            THEN IF int.ok
                 THEN [ok |-> TRUE, tag |-> tlv.tag, isInt |-> TRUE,
                       value |-> int.value, bytes |-> <<>>, next |-> tlv.next]
                 ELSE int
       ELSE IF universal /\ tlv.tag.nr = Boolean /\ Len(tlv.contents) # 1
            THEN Raise("asn1.Error")
       ELSE IF universal /\ tlv.tag.nr = Null /\ Len(tlv.contents) # 0
            THEN Raise("asn1.Error")
       ELSE [ok |-> TRUE, tag |-> tlv.tag, isInt |-> FALSE,
             value |-> 0, bytes |-> tlv.contents, next |-> tlv.next]

\* Decoder.enter() on a level that is not at its end: the contents of the
\* constructed value become the new level.
DecoderEnter(data, i) ==
    LET tlv == ReadTLV(data, i)
    IN IF ~TagOf(data[i + 1]).constructed THEN Raise("asn1.Error")
       ELSE tlv

----------------------------------------------------------------------------
(* Release.__init__ *)

\* The greatest expiry_ms that ATLeaf.expiry turns into a datetime (the last
\* millisecond of the year 9999), as a numeral.
MaxTimestampMs == <<230, 119, 210, 31, 219, 255>>

RECURSIVE NumeralLeq(_, _)
NumeralLeq(a, b) ==
    IF Len(a) # Len(b) THEN Len(a) < Len(b)
    ELSE IF a = <<>> THEN TRUE
    ELSE IF a[1] # b[1] THEN a[1] < b[1]
    ELSE NumeralLeq(Tail(a), Tail(b))

\* ATLeaf.expiry: datetime.fromtimestamp raises beyond the year 9999; the
\* datetime is kept as the milliseconds it was made from.
Expiry(leaf) ==
    IF NumeralLeq(leaf.expiry_ms, MaxTimestampMs)
    THEN [ok |-> TRUE, value |-> leaf.expiry_ms]
    ELSE Raise("ValueError")

\* The while loop over the SET: i is the index in the SET's contents.
RECURSIVE ReadCryptexTickets(_, _, _)
ReadCryptexTickets(data, i, cryptex_tickets) ==
    IF Eof(data, i) THEN [ok |-> TRUE, cryptex_tickets |-> cryptex_tickets]
    ELSE LET r == DecoderRead(data, i)
         IN IF ~r.ok THEN r
            ELSE IF r.tag.nr # OctetString THEN Raise("AssertionError")
            ELSE ReadCryptexTickets(data, r.next,
                                    Append(cryptex_tickets, r.bytes))

\* Release(log_leaf, at_leaf).  The fields ReleaseMetadata().parse fills from
\* log_leaf.metadata (schema, created, assets, darwin_init) are left out.
ReleaseInit(log_leaf, leaf) ==
    LET expires == Expiry(leaf)
        tickets_raw == log_leaf.raw_data
        seq == DecoderEnter(tickets_raw, 0)
        ver == DecoderRead(seq.contents, 0)
        ap == DecoderRead(seq.contents, ver.next)
        set == DecoderEnter(seq.contents, ap.next)
        cryptex == ReadCryptexTickets(set.contents, 0, <<>>)
    IN IF ~expires.ok THEN expires
       ELSE IF tickets_raw = <<>> THEN Raise("AssertionError")
       ELSE IF Peek(tickets_raw, 0).nr # Sequence THEN Raise("AssertionError")
       ELSE IF ~seq.ok THEN seq
       ELSE IF Eof(seq.contents, 0) THEN Raise("TypeError")
       ELSE IF ~ver.ok THEN ver
       ELSE IF ver.tag.nr # Integer THEN Raise("AssertionError")
       ELSE IF ~(ver.isInt /\ ver.value = 1) THEN Raise("AssertionError")
       ELSE IF Eof(seq.contents, ver.next) THEN Raise("TypeError")
       ELSE IF ~ap.ok THEN ap
       ELSE IF ap.tag.nr # OctetString THEN Raise("AssertionError")
       ELSE IF Eof(seq.contents, ap.next) THEN Raise("AttributeError")
       ELSE IF Peek(seq.contents, ap.next).nr # Set THEN Raise("AssertionError")
       ELSE IF ~set.ok THEN set
       ELSE IF ~cryptex.ok THEN cryptex
       ELSE [ok |-> TRUE,
             release |-> [index |-> log_leaf.index,
                          expires |-> expires.value,
                          hash |-> leaf.hash,
                          release_metadata_present |-> log_leaf.metadata # <<>>,
                          tickets_raw |-> tickets_raw,
                          ap_ticket |-> ap.bytes,
                          cryptex_tickets |-> cryptex.cryptex_tickets]]

----------------------------------------------------------------------------
(* get_releases_from_leaves *)

\* hashlib.sha256(data).digest(): 32 bytes that depend on every byte of data
\* and on its length.  SHA-256 itself is not computed; this function stands
\* for it.
RECURSIVE Mix(_, _, _)
Mix(data, k, acc) ==
    IF k > Len(data) THEN acc
    ELSE Mix(data, k + 1, (acc * 33 + data[k] + 1) % 256)

Sha256(data) ==
    LET h == Mix(data, 1, Len(data))
    IN [i \in 1..32 |-> (h + i * (h + 1)) % 256]

\* The test inverted: `if not raw_data:`
HashCheckedWhenEmpty(raw_data) == raw_data = <<>>

\* `if raw_data:`
HashChecked(raw_data) == raw_data # <<>>

\* A comparison that takes a leaf without a hash as nothing to verify.
HashMatchesIfPresent(raw_data, leaf) ==
    leaf.hash.present => Some(Sha256(raw_data)) = leaf.hash

\* A comparison of the sizes of the two digests alone.
HashSizeMatches(raw_data, leaf) ==
    leaf.hash.present /\ Len(Sha256(raw_data)) = Len(leaf.hash.value)

\* `hashlib.sha256(raw_data).digest() == at_leaf.hash`
HashMatches(raw_data, leaf) == Some(Sha256(raw_data)) = leaf.hash

\* A test that takes every kind for the release kind.
IsAnyKind(leaf) == leaf.type \in AtLogDataTypeValues

\* `at_leaf.type == AtLogDataType.RELEASE`
IsRelease(leaf) == leaf.type = RELEASE

\* `log_leaf.node_type == NodeType.ATL_NODE`
IsAtlNode(log_leaf) == log_leaf.node_type = "ATL_NODE"

HashMismatch == "AssertionError: Hash mismatch"

----------------------------------------------------------------------------
(* The wire layout of a leaf record, used to build the buffers that are
   decoded: version(1) kind(1) descLen(1) description digestLen(1) digest
   expiryMillis(8, big-endian) extRegionLen(2, big-endian) extensions, each
   extension kind(1) payloadLen(2, big-endian) payload. *)

\* A code point as UTF-8 (code points below 0x10000 that are no surrogates).
Utf8EncodeChar(cp) ==
    IF cp < 128 THEN <<cp>>
    ELSE IF cp < 2048 THEN <<192 + (cp \div 64), 128 + (cp % 64)>>
    ELSE <<224 + (cp \div 4096), 128 + ((cp \div 64) % 64), 128 + (cp % 64)>>

RECURSIVE Utf8Encode(_)
Utf8Encode(text) ==
    IF text = <<>> THEN <<>>
    ELSE Utf8EncodeChar(text[1]) \o Utf8Encode(Tail(text))

\* A length below 65536 as two big-endian bytes.
Uint16Big(n) == <<n \div 256, n % 256>>

\* A numeral of at most width digits, left-padded with zero bytes to width.
RECURSIVE PadBig(_, _)
PadBig(numeral, width) ==
    IF Len(numeral) >= width THEN numeral ELSE PadBig(<<0>> \o numeral, width)

EncodeExtension(e) == <<e.type>> \o Uint16Big(Len(e.data)) \o e.data

RECURSIVE EncodeExtensions(_)
EncodeExtensions(es) ==
    IF es = <<>> THEN <<>>
    ELSE EncodeExtension(es[1]) \o EncodeExtensions(Tail(es))

\* f: [version, dataKind, description (code points), digest (bytes),
\* expiryMillis (numeral), extensions]
EncodeLeaf(f) ==
    LET text == Utf8Encode(f.description)
        region == EncodeExtensions(f.extensions)
    IN <<f.version, f.dataKind, Len(text)>> \o text
       \o <<Len(f.digest)>> \o f.digest
       \o PadBig(f.expiryMillis, 8)
       \o Uint16Big(Len(region)) \o region

\* The record parse_at_leaf is to return for the fields f.
LeafOf(f) ==
    ATLeaf(f.version, f.dataKind, OrNone(f.description), OrNone(f.digest),
           f.expiryMillis, f.extensions)

----------------------------------------------------------------------------
(* Bounds and input sets *)

MaxExtensions == 2

MaxLeaves == 3

SeqsUpTo(S, n) == UNION {[1..k -> S] : k \in 0..n}

Versions == {1, 2}

Kinds == {RELEASE, 3}

Descriptions == {<<>>, <<65>>, <<233, 65>>}

Digests == {<<>>, <<170, 187>>}

Expiries == {<<>>, <<1, 0>>, <<255, 0, 0, 0, 0, 0, 0, 1>>}

ExtensionValues == {TransparencyExtension(1, <<>>), TransparencyExtension(2, <<9>>)}

Trailings == {<<>>, <<0, 3>>}

LeafFields ==
    [version : Versions, dataKind : Kinds, description : Descriptions,
     digest : Digests, expiryMillis : Expiries,
     extensions : SeqsUpTo(ExtensionValues, MaxExtensions)]

\* The fields of the buffers that are damaged: one version and one expiry.
DamagedFields == {f \in LeafFields : f.version = 1 /\ f.expiryMillis = <<1, 0>>}

PatchValues == {0, 1, 2, 200, 255}

Truncate(buf, n) == SubSeq(buf, 1, n)

Patch(buf, p, v) == [buf EXCEPT ![p] = v]

NotCalled == [ok |-> FALSE, error |-> "NotCalled"]

NoFields == [intact |-> FALSE]

----------------------------------------------------------------------------
(* parse_at_leaf on its own: every buffer below, decoded once. *)

InitLeaf ==
    /\ \E f \in LeafFields, t \in Trailings :
          \/ /\ raw = EncodeLeaf(f) \o t
             /\ built = [intact |-> TRUE, fields |-> f, trailing |-> t]
          \/ /\ f \in DamagedFields
             /\ \/ \E n \in 0..(Len(EncodeLeaf(f) \o t) - 1) :
                      raw = Truncate(EncodeLeaf(f) \o t, n)
                \/ \E p \in 1..Len(EncodeLeaf(f) \o t), v \in PatchValues :
                      /\ (EncodeLeaf(f) \o t)[p] # v
                      /\ raw = Patch(EncodeLeaf(f) \o t, p, v)
             /\ built = NoFields
    /\ at_leaf = NotCalled
    /\ log_leaves = <<>>
    /\ idx = 0
    /\ release = NotCalled
    /\ releases = <<>>
    /\ status = "idle"

ParseAtLeaf ==
    /\ at_leaf = NotCalled
    /\ status = "idle"
    /\ at_leaf' = parse_at_leaf(raw)
    /\ UNCHANGED <<raw, built, log_leaves, idx, release, releases, status>>

NextLeaf == ParseAtLeaf

SpecLeaf == InitLeaf /\ [][NextLeaf]_vars

----------------------------------------------------------------------------
(* Release(log_leaf, at_leaf) on its own: every ticket bundle below, decoded
   once. *)

MaxCryptex == 2

TLV(tagByte, contents) == <<tagByte, Len(contents)>> \o contents

RECURSIVE OctetStrings(_)
OctetStrings(tickets) ==
    IF tickets = <<>> THEN <<>>
    ELSE TLV(4, tickets[1]) \o OctetStrings(Tail(tickets))

\* SEQUENCE { INTEGER version, OCTET STRING primary, SET OF OCTET STRING
\* secondaries } with `extra` after the SET inside the SEQUENCE.
EncodeBundle(b) ==
    TLV(48, TLV(2, <<b.version>>) \o TLV(4, b.primary)
            \o TLV(49, OctetStrings(b.secondaries)) \o b.extra)

BundleFields ==
    [version : {1, 2}, primary : {<<>>, <<5>>},
     secondaries : SeqsUpTo({<<6>>, <<7, 8>>}, MaxCryptex),
     extra : {<<>>, <<5, 0>>, <<4, 1, 9>>}]

DamagedBundles == {b \in BundleFields : b.version = 1 /\ b.extra = <<>>}

BundlePatchValues == {0, 1, 2, 4, 16, 17, 48, 49}

Truncations(buf) == {Truncate(buf, n) : n \in 0..(Len(buf) - 1)}

Patches(buf, values) == {Patch(buf, p, v) : p \in 1..Len(buf), v \in values}

\* 130 in the place of the INTEGER's tag: number 2 in the context class.
BundleInputs ==
    {EncodeBundle(b) \o t : b \in BundleFields, t \in {<<>>, <<0>>}}
    \cup UNION {Truncations(EncodeBundle(b)) : b \in DamagedBundles}
    \cup UNION {Patches(EncodeBundle(b), BundlePatchValues) : b \in DamagedBundles}
    \cup {Patch(EncodeBundle(b), 3, 130) : b \in DamagedBundles}

\* A LogLeavesResponseLeaf.  mutation is ChangeLogNodeV2().parse(node_bytes)
\* .mutation; metadata is empty or a ReleaseMetadata message that parses.
LogLeaf(index, node_type, mutation, raw_data, metadata) ==
    [index |-> index, node_type |-> node_type, mutation |-> mutation,
     raw_data |-> raw_data, metadata |-> metadata]

InitRelease ==
    /\ \E b \in BundleInputs, e \in {<<1, 0>>, <<1, 0, 0, 0, 0, 0, 0, 0>>},
          m \in {<<>>, <<8>>} :
          /\ log_leaves = <<LogLeaf(0, "ATL_NODE", <<>>, b, m)>>
          /\ at_leaf = [ok |-> TRUE,
                        leaf |-> ATLeaf(1, RELEASE, None, Some(Sha256(b)), e, <<>>)]
    /\ raw = <<>>
    /\ built = NoFields
    /\ idx = 0
    /\ release = NotCalled
    /\ releases = <<>>
    /\ status = "idle"

NewRelease ==
    /\ release = NotCalled
    /\ status = "idle"
    /\ log_leaves # <<>>
    /\ release' = ReleaseInit(log_leaves[1], at_leaf.leaf)
    /\ UNCHANGED <<raw, built, at_leaf, log_leaves, idx, releases, status>>

NextRelease == NewRelease

SpecRelease == InitRelease /\ [][NextRelease]_vars

----------------------------------------------------------------------------
(* get_releases_from_leaves over a batch of entries *)

BatchLeaf(kind, digest) ==
    EncodeLeaf([version |-> 1, dataKind |-> kind, description |-> <<65>>,
                digest |-> digest, expiryMillis |-> <<1, 0>>, extensions |-> <<>>])

GoodBundle ==
    EncodeBundle([version |-> 1, primary |-> <<5>>, secondaries |-> <<<<6>>>>,
                  extra |-> <<>>])

Version2Bundle ==
    EncodeBundle([version |-> 2, primary |-> <<5>>, secondaries |-> <<>>,
                  extra |-> <<>>])

\* A digest that differs from d in its first byte.
Flipped(d) == [d EXCEPT ![1] = (d[1] + 1) % 256]

AtlEntry(kind, digest, raw_data) ==
    LogLeaf(0, "ATL_NODE", BatchLeaf(kind, digest), raw_data, <<>>)

\* The entries of a batch, without their index.  Release entries: a good
\* bundle under the right digest, under a wrong one and under none, a bundle
\* of version 2 under the right digest, and no raw data under some digest.
\* Entries of another kind: the same but the last, with no raw data and no
\* digest.  Then a leaf that ends after its version byte, and an entry that
\* is no ATL node.
EntryShapes ==
    {AtlEntry(RELEASE, Sha256(GoodBundle), GoodBundle),
     AtlEntry(RELEASE, Flipped(Sha256(GoodBundle)), GoodBundle),
     AtlEntry(RELEASE, <<>>, GoodBundle),
     AtlEntry(RELEASE, Sha256(Version2Bundle), Version2Bundle),
     AtlEntry(RELEASE, Flipped(Sha256(<<>>)), <<>>),
     AtlEntry(3, Sha256(GoodBundle), GoodBundle),
     AtlEntry(3, Flipped(Sha256(GoodBundle)), GoodBundle),
     AtlEntry(3, <<>>, GoodBundle),
     AtlEntry(3, Sha256(Version2Bundle), Version2Bundle),
     AtlEntry(3, <<>>, <<>>),
     LogLeaf(0, "ATL_NODE", <<1>>, GoodBundle, <<>>),
     LogLeaf(0, "PACL_NODE", <<1>>, <<255>>, <<>>)}

\* A batch: the entries shapes[1], shapes[2], ... at log positions 0, 1, ...
Batch(shapes) == [i \in 1..Len(shapes) |-> [shapes[i] EXCEPT !.index = i - 1]]

Init ==
    /\ \E n \in 0..MaxLeaves : \E shapes \in [1..n -> EntryShapes] :
          log_leaves = Batch(shapes)
    /\ raw = <<>>
    /\ built = NoFields
    /\ at_leaf = NotCalled
    /\ idx = 0
    /\ release = NotCalled
    /\ releases = <<>>
    /\ status = "running"

\* One pass of the body of `for log_leaf in log_leaves.leaves`.  An exception
\* leaves the loop where it is and ends the call.
Iterate ==
    /\ status = "running"
    /\ idx < Len(log_leaves)
    /\ LET log_leaf == log_leaves[idx + 1]
           raw_data == log_leaf.raw_data
           parsed == parse_at_leaf(log_leaf.mutation)
           made == ReleaseInit(log_leaf, parsed.leaf)
       IN IF ~IsAtlNode(log_leaf)
          THEN /\ idx' = idx + 1
               /\ UNCHANGED <<raw, at_leaf, release, releases, status>>
          ELSE /\ raw' = log_leaf.mutation
               /\ at_leaf' = parsed
               /\ IF ~parsed.ok
                  THEN /\ status' = parsed.error
                       /\ UNCHANGED <<idx, release, releases>>
                  ELSE IF HashChecked(raw_data) /\ ~HashMatches(raw_data, parsed.leaf)
                  THEN /\ status' = HashMismatch
                       /\ UNCHANGED <<idx, release, releases>>
                  ELSE IF ~IsRelease(parsed.leaf)
                  THEN /\ idx' = idx + 1
                       /\ UNCHANGED <<release, releases, status>>
                  ELSE /\ release' = made
                       /\ IF made.ok
                          THEN /\ releases' = Append(releases, made.release)
                               /\ idx' = idx + 1
                               /\ UNCHANGED status
                          ELSE /\ status' = made.error
                               /\ UNCHANGED <<idx, releases>>
    /\ UNCHANGED <<built, log_leaves>>

\* `return releases`
Return ==
    /\ status = "running"
    /\ idx = Len(log_leaves)
    /\ status' = "returned"
    /\ UNCHANGED <<raw, built, at_leaf, log_leaves, idx, release, releases>>

Next == Iterate \/ Return

Spec == Init /\ [][Next]_vars

----------------------------------------------------------------------------
(* Properties of get_releases_from_leaves, under Spec *)

LeafAt(k) == parse_at_leaf(log_leaves[k].mutation)

Entries == 1..Len(log_leaves)

\* The loop has gone past entry k.
Passed(k) == idx >= k

\* The call ended with an exception raised while entry k was processed.
FailedAt(k) == idx = k - 1 /\ status \notin {"running", "returned"}

\* The list holds a Release made from entry k.
ReleaseOf(k) == \E j \in 1..Len(releases) : releases[j].index = log_leaves[k].index

\* Entry k: an ATL node with raw data whose leaf decodes and declares a digest
\* that is not the SHA-256 of the raw data.
DigestDiffers(k) ==
    /\ log_leaves[k].node_type = "ATL_NODE"
    /\ log_leaves[k].raw_data # <<>>
    /\ LET parsed == LeafAt(k)
       IN /\ parsed.ok
          /\ parsed.leaf.hash.present
          /\ parsed.leaf.hash.value # Sha256(log_leaves[k].raw_data)

\* Entry k: an ATL node with raw data whose leaf decodes and declares no digest.
NoDigest(k) ==
    /\ log_leaves[k].node_type = "ATL_NODE"
    /\ log_leaves[k].raw_data # <<>>
    /\ LET parsed == LeafAt(k)
       IN parsed.ok /\ ~parsed.leaf.hash.present

\* Entry k: an ATL node whose leaf decodes to a kind other than release.
OtherKind(k) ==
    /\ log_leaves[k].node_type = "ATL_NODE"
    /\ LET parsed == LeafAt(k)
       IN parsed.ok /\ parsed.leaf.type # RELEASE

\* Entry k: an ATL node of release kind that decodes, whose digest is the
\* SHA-256 of its raw data and whose ticket bundle decodes.
WellFormedRelease(k) ==
    /\ log_leaves[k].node_type = "ATL_NODE"
    /\ LET parsed == LeafAt(k)
       IN /\ parsed.ok
          /\ parsed.leaf.type = RELEASE
          /\ parsed.leaf.hash = Some(Sha256(log_leaves[k].raw_data))
          /\ ReleaseInit(log_leaves[k], parsed.leaf).ok

\* What the caller gets: the list on return, nothing on an exception.
Returned == IF status = "returned" THEN releases ELSE <<>>

\* C2: an ATL entry with raw data whose leaf declares a digest other than the
\* SHA-256 of the raw data is never passed by the loop: processing it ends
\* with the hash mismatch, and no Release is made from it.
C2_DigestMismatchFails ==
    \A k \in Entries :
        DigestDiffers(k) =>
            /\ ~Passed(k)
            /\ FailedAt(k) => status = HashMismatch
            /\ ~ReleaseOf(k)

\* C2 witness: a mismatching entry, reached after a Release was made, has
\* ended the call with the hash mismatch.
C2_Witness ==
    \E k \in Entries :
        DigestDiffers(k) /\ FailedAt(k) /\ status = HashMismatch /\ Len(releases) > 0

C5_FailureKeepsOtherReleases ==
    status # "running" =>
        \A k \in Entries :
            WellFormedRelease(k) =>
                \E j \in 1..Len(Returned) : Returned[j].index = log_leaves[k].index

\* C6 (as claimed): an ATL entry of another kind than release is never a
\* failure and never a Release.
C6_OtherKindsNeverFail ==
    \A k \in Entries : OtherKind(k) => ~FailedAt(k) /\ ~ReleaseOf(k)

\* C6 (amended): no Release is made from an ATL entry of another kind than
\* release, and its ticket bundle is never decoded; the hash check comes
\* before the kind test, so such an entry fails, with the hash mismatch, exactly
\* when it has raw data whose SHA-256 is not the leaf's digest.
C6_OtherKindsSkippedAfterHashCheck ==
    \A k \in Entries :
        OtherKind(k) =>
            /\ ~ReleaseOf(k)
            /\ FailedAt(k) =>
                  /\ status = HashMismatch
                  /\ log_leaves[k].raw_data # <<>>
                  /\ LeafAt(k).leaf.hash # Some(Sha256(log_leaves[k].raw_data))
            /\ Passed(k) =>
                  \/ log_leaves[k].raw_data = <<>>
                  \/ LeafAt(k).leaf.hash = Some(Sha256(log_leaves[k].raw_data))

\* C6 witness: an entry of another kind whose raw data is a bundle that does
\* not decode was skipped, and the call returned.
C6_Witness ==
    \E k \in Entries :
        /\ OtherKind(k)
        /\ log_leaves[k].raw_data = Version2Bundle
        /\ Passed(k)
        /\ status = "returned"

\* C10: the Releases of the list come, in the order of the batch and at most
\* one per entry, from ATL entries of release kind; each holds the entry's raw
\* data, not empty, as its raw ticket bytes and their SHA-256 as its digest.
C10_ReleasesMatchEntries ==
    \E f \in [1..Len(releases) -> Entries] :
        /\ \A a, b \in 1..Len(releases) : a < b => f[a] < f[b]
        /\ \A j \in 1..Len(releases) :
              /\ log_leaves[f[j]].node_type = "ATL_NODE"
              /\ LET parsed == LeafAt(f[j])
                 IN parsed.ok /\ parsed.leaf.type = RELEASE
              /\ releases[j].index = log_leaves[f[j]].index
              /\ releases[j].tickets_raw = log_leaves[f[j]].raw_data
              /\ releases[j].tickets_raw # <<>>
              /\ releases[j].hash = Some(Sha256(releases[j].tickets_raw))

\* C10 witness: a returned list of two Releases from a batch of three entries
\* whose middle entry is no release.
C10_Witness ==
    /\ status = "returned"
    /\ Len(releases) = 2
    /\ Len(log_leaves) = 3
    /\ ~ReleaseOf(2)

----------------------------------------------------------------------------
(* Properties of parse_at_leaf, under SpecLeaf *)

\* The decode of raw has run.
LeafCalled == at_leaf # NotCalled

\* The offset of the digest length in buf, by the declared description length.
DigestLenOffset(buf) == 4 + buf[3]

\* The offset of the last byte of the extensions-region length in buf, by the
\* declared description and digest lengths.
RegionLenOffset(buf) == DigestLenOffset(buf) + buf[DigestLenOffset(buf)] + 10

\* The declared length of the extensions region.
RegionLen(buf) ==
    buf[RegionLenOffset(buf) - 1] * 256 + buf[RegionLenOffset(buf)]

\* buf ends before the boundary of a field it declares: the three leading
\* bytes, the description and the digest length, the digest, the expiry and
\* the region length, or the extensions region.
EndsBeforeBoundary(buf) ==
    \/ Len(buf) < 3
    \/ Len(buf) < DigestLenOffset(buf)
    \/ Len(buf) < RegionLenOffset(buf)
    \/ Len(buf) < RegionLenOffset(buf) + RegionLen(buf)

\* The extensions region of a buffer that holds all of it.
Region(buf) ==
    SubSeq(buf, RegionLenOffset(buf) + 1, RegionLenOffset(buf) + RegionLen(buf))

\* From offset pos on, the region is extension records that end where the
\* region ends: each header and each declared payload lies inside the region.
RECURSIVE FitsRegion(_, _)
FitsRegion(region, pos) ==
    IF pos = Len(region) THEN TRUE
    ELSE IF pos + 3 > Len(region) THEN FALSE
    ELSE LET payloadLen == region[pos + 2] * 256 + region[pos + 3]
         IN IF pos + 3 + payloadLen > Len(region) THEN FALSE
            ELSE FitsRegion(region, pos + 3 + payloadLen)

\* C1 (as claimed): no leaf record is returned from a buffer that ends before
\* the boundary of a field it declares; the decode of such a buffer fails.
C1_TruncatedBufferFails ==
    LeafCalled /\ EndsBeforeBoundary(raw) => ~at_leaf.ok

\* C4 (as claimed): when a leaf record is returned from a buffer that holds
\* its whole extensions region, every extension record of the region, header
\* and declared payload, lies inside the region, and the records end where the
\* region ends.
C4_ExtensionsFitRegion ==
    at_leaf.ok /\ ~EndsBeforeBoundary(raw) => FitsRegion(Region(raw), 0)

\* C7: the decode of a leaf encoded from field values by the wire layout,
\* with or without bytes after the extensions region, returns the record of
\* exactly those values.
C7_RoundTrip ==
    LeafCalled /\ built.intact =>
        at_leaf = [ok |-> TRUE, leaf |-> LeafOf(built.fields)]

\* C7 witness: a decoded leaf that was encoded with a two-byte description, a
\* digest, an eight-byte expiry, two extensions and bytes after the region.
C7_Witness ==
    /\ LeafCalled
    /\ built.intact
    /\ built.fields.description = <<233, 65>>
    /\ built.fields.digest # <<>>
    /\ Len(built.fields.expiryMillis) = 8
    /\ Len(built.fields.extensions) = 2
    /\ built.fields.extensions[1] # built.fields.extensions[2]
    /\ built.trailing # <<>>
    /\ at_leaf.ok

\* C9 (as claimed): in a returned leaf record the description is present
\* exactly when the description length read from the buffer is not zero, the
\* digest is present exactly when the digest length is not zero, and a present
\* digest has as many bytes as its length declares.
C9_PresenceMatchesPrefix ==
    at_leaf.ok =>
        /\ at_leaf.leaf.description.present <=> raw[3] # 0
        /\ at_leaf.leaf.hash.present <=> raw[DigestLenOffset(raw)] # 0
        /\ at_leaf.leaf.hash.present =>
              Len(at_leaf.leaf.hash.value) = raw[DigestLenOffset(raw)]

----------------------------------------------------------------------------
(* Properties of Release.__init__, under SpecRelease *)

\* In the bundle buf, the outer SEQUENCE ends where its third element ends.
SequenceEndsAtThird(buf) ==
    LET seq == ReadTLV(buf, 0)
        first == ReadTLV(seq.contents, 0)
        second == ReadTLV(seq.contents, first.next)
        third == ReadTLV(seq.contents, second.next)
    IN third.next = Len(seq.contents)

\* C8 (as claimed): a Release is made only from a bundle whose outer SEQUENCE
\* holds nothing after the SET.
C8_TrailingDataRejected ==
    release.ok => SequenceEndsAtThird(log_leaves[1].raw_data)

====
